---- MODULE Spec2Model ----
(***************************************************************************)
(* Model of the subtitle segment pipeline of hermecho:                     *)
(*   - translate_segments and _translate_chunk (src/src/translation.py),   *)
(*   - the part of _process_video that consumes its result (main.py),      *)
(*   - split_long_segments, fill_transcription_gaps,                       *)
(*     adjust_subtitle_timing and generate_srt (src/src/subtitles.py),     *)
(*   - the stages of _process_video and the removal of its temporary       *)
(*     audio file (src/src/main.py), with extract_audio                    *)
(*     (src/src/video_processing.py).                                      *)
(*                                                                         *)
(* Strings are modelled as sequences of atoms.  An atom is either one      *)
(* character that the code treats specially (a blank, a newline, one of    *)
(* the two full-width punctuation marks) or a block of ordinary            *)
(* characters, written as a TLA+ string whose Len is its character count.  *)
(* Python's None is the record None; a Python list l is Some(l).           *)
(***************************************************************************)
EXTENDS Integers, Sequences, FiniteSets, TLC

(***************************************************************************)
(* Program constants.                                                      *)
(***************************************************************************)
TOKEN_THRESHOLD == 128000
CHUNK_SIZE == 200
OVERLAP_SIZE == 3
PROMPT_OVERHEAD == 1000
SUB_CHUNK_SIZE == 50
MINI_CHUNK_SIZE == 10

(***************************************************************************)
(* Bounds of the model.                                                    *)
(***************************************************************************)
\* segments beyond the last full unit of a level (the short tail unit)
Remainder == 3
\* backend calls that may fail in one run of translate_segments
MaxFailures == 3

(***************************************************************************)
(* Strings.                                                                *)
(***************************************************************************)
SPACE == " "
NEWLINE == "\n"
FW_COMMA == "U+FF0C"
FW_STOP == "U+3002"
NO_SPEECH == "[no speech]"

\* a JSON value that is not a string (null, a number, an object, ...)
NonString == <<"<json-non-string>">>

None == [isNone |-> TRUE, items |-> <<>>]
Some(l) == [isNone |-> FALSE, items |-> l]

Min(a, b) == IF a < b THEN a ELSE b
Max(a, b) == IF a > b THEN a ELSE b

\* str.isspace() of one character
IsSpace(a) == a \in {SPACE, NEWLINE}

\* len(str): the number of characters (computed by halving, to keep the
\* evaluation shallow on long strings)
AtomLen(a) == IF a \in {FW_COMMA, FW_STOP} THEN 1 ELSE Len(a)

RECURSIVE CharLen(_)
CharLen(t) ==
  IF t = <<>> THEN 0
  ELSE IF Len(t) = 1 THEN AtomLen(t[1])
  ELSE LET h == Len(t) \div 2
       IN CharLen(SubSeq(t, 1, h)) + CharLen(SubSeq(t, h + 1, Len(t)))

RECURSIVE LStrip(_)
LStrip(t) ==
  IF t = <<>> THEN <<>>
  ELSE IF IsSpace(Head(t)) THEN LStrip(Tail(t)) ELSE t

RECURSIVE RStrip(_)
RStrip(t) ==
  IF t = <<>> THEN <<>>
  ELSE IF IsSpace(t[Len(t)]) THEN RStrip(SubSeq(t, 1, Len(t) - 1)) ELSE t

\* str.strip()
Strip(t) == RStrip(LStrip(t))

\* str.replace(old, new) for one-character old and new
Replace(t, old, new) == [x \in DOMAIN t |-> IF t[x] = old THEN new ELSE t[x]]

\* sep.join(list) (computed by halving)
RECURSIVE Join(_, _)
Join(sep, l) ==
  IF l = <<>> THEN <<>>
  ELSE IF Len(l) = 1 THEN l[1]
  ELSE LET h == Len(l) \div 2
       IN Join(sep, SubSeq(l, 1, h)) \o <<sep>> \o Join(sep, SubSeq(l, h + 1, Len(l)))

\* list * n for a one-element list
Repeat(x, n) == [q \in 1..n |-> x]

\* list[a:b] with 0 <= a, b (python slice, 0-based, half open, clipped)
Slice(l, a, b) == SubSeq(l, a + 1, Min(b, Len(l)))

\* [seg["text"] for seg in segs]
Texts(segs) == [x \in DOMAIN segs |-> segs[x].text]


(***************************************************************************)
(* State.                                                                  *)
(***************************************************************************)
VARIABLES
  segments,                  \* translate_segments: the input list
  reference_len,             \* len(reference_material or "")
  total_length,              \* len(full_text) + prompt_overhead
  odd,                       \* backend: the position whose translation is unusual
  pc,                        \* translate_segments: the call site being executed
  phase,                     \* "call", "wait" (blocked in chain.invoke), "ret"
  use_sliding_window,
  translated_segments_text,  \* None or a list of elements
  translated_chunk,
  i, j, k,                   \* loop variables of the three nested loops
  req,                       \* arguments of the running _translate_chunk call
  inflight,                  \* ids of requests the backend has not answered
  reply,                     \* the backend's latest answer
  calls,                     \* the _translate_chunk calls made, in order
  fails,                     \* number of failed calls so far
  returned,                  \* translate_segments' return value
  pipeline,                  \* _process_video after the translation stage
  sp_pc,                     \* split_long_segments: position in its loops
  sp_segments,               \* split_long_segments: the input list
  max_chars, max_duration,
  seg_idx,                   \* index (1-based) of the segment being handled
  word_idx,                  \* index (1-based) of the word being handled
  current_chunk_words,
  current_chunk_start,
  split_segments,            \* the output list
  split_origin,              \* for each output segment, the input index it came from
  outage,                    \* backend: every call of this run fails
  gap_pc,                    \* fill_transcription_gaps: not called, called, returned
  heap,                      \* the segment objects (dicts), indexed by reference
  transcribed_segments,      \* fill_transcription_gaps: the input list (references)
  gap_threshold,
  filled_segments,           \* fill_transcription_gaps: the returned list (references)
  input_at_call,             \* the input segments' values when the call was made
  timing_pc,                 \* adjust_subtitle_timing and generate_srt: position
  timing_segments,           \* adjust_subtitle_timing: the input list
  time_buffer,
  adjusted_segments,         \* adjust_subtitle_timing: the returned list
  readjusted_segments,       \* the result of a second application to adjusted_segments
  srt_file,                  \* generate_srt: the strings written to the file, in order
  run_pc,                    \* _process_video: the statement being executed
  video_exists,              \* os.path.exists(video_path)
  ffmpeg_installed,
  audio_file,                \* what is on disk at the audio path
  audio_path,                \* extract_audio's return value
  translated_segments,       \* _process_video: translate_segments' return value
  exit_path                  \* how the run left the body of _process_video

translateVars == <<segments, reference_len, total_length, odd, outage, pc, phase,
                   use_sliding_window, translated_segments_text, translated_chunk,
                   i, j, k, req, inflight, reply, calls, fails, returned, pipeline>>

splitVars == <<sp_pc, sp_segments, max_chars, max_duration, seg_idx, word_idx,
               current_chunk_words, current_chunk_start, split_segments,
               split_origin>>

gapVars == <<gap_pc, heap, transcribed_segments, gap_threshold, filled_segments,
             input_at_call>>

timingVars == <<timing_pc, timing_segments, time_buffer, adjusted_segments,
                readjusted_segments, srt_file>>

runVars == <<run_pc, video_exists, ffmpeg_installed, audio_file, audio_path,
             translated_segments, exit_path>>

\* the state of the stages after translate_segments and of the run around them
stageVars == <<gapVars, timingVars, runVars>>

vars == <<translateVars, splitVars, stageVars>>

CallSites == {"single", "chunk", "sub", "mini"}

NoReq == [id |-> 0, level |-> "none", lo |-> 0, hi |-> 0,
          main |-> <<>>, ref |-> 0, prev |-> <<>>, next |-> <<>>]
NoReply == [kind |-> "none", items |-> <<>>]
NotReturned == [isNone |-> FALSE, items |-> <<"<running>">>]

(***************************************************************************)
(* Inputs.                                                                 *)
(***************************************************************************)
\* source text of the segment at (1-based) position p
SourceText(p, silent) ==
  IF p = silent.pos
  THEN (IF silent.padded THEN <<SPACE, NO_SPEECH, SPACE>> ELSE <<NO_SPEECH>>)
  ELSE <<"ko" \o ToString(p)>>

MakeSegments(n, silent) ==
  [p \in 1..n |-> [text |-> SourceText(p, silent), start |-> 10 * p, end |-> 10 * p + 7]]

SegmentCounts ==
  {0, 1, Remainder, MINI_CHUNK_SIZE + Remainder, SUB_CHUNK_SIZE + Remainder,
   CHUNK_SIZE + Remainder}

\* reference material short enough for the single batch, or too long for it
ReferenceLens == {0, TOKEN_THRESHOLD - PROMPT_OVERHEAD}

\* no silence placeholder, one at the head, or a padded one at the tail
Silences(n) ==
  {[pos |-> 0, padded |-> FALSE]} \cup
  {s \in {[pos |-> 1, padded |-> FALSE], [pos |-> n, padded |-> TRUE]} : s.pos <= n}

\* the backend's translation of one segment may be unusual: full-width
\* punctuation, blanks only, or a JSON value that is not a string
Oddities(n) ==
  {[pos |-> 0, kind |-> "plain"]} \cup
  {o \in {[pos |-> 1, kind |-> "punct"], [pos |-> n, kind |-> "blank"],
          [pos |-> 1, kind |-> "nonstr"], [pos |-> n, kind |-> "nonstr"]} :
     o.pos >= 1 /\ o.pos <= n}

(***************************************************************************)
(* The translation backend (chain.invoke).                                 *)
(***************************************************************************)
Tag(c, p) == "t" \o ToString(c) \o "_" \o ToString(p)

\* what call c of the backend answers for the segment at position p
Elem(c, p) ==
  IF p # odd.pos THEN <<Tag(c, p)>>
  ELSE CASE odd.kind = "punct" -> <<Tag(c, p), FW_COMMA, "x", FW_STOP>>
         [] odd.kind = "blank" -> <<SPACE, FW_STOP>>
         [] OTHER -> NonString

Answer(r, count) == [q \in 1..count |-> Elem(r.id, r.lo + q)]

(***************************************************************************)
(* translate_segments: positions of the loops.                             *)
(***************************************************************************)
num_segments == Len(segments)
num_chunks == (num_segments + CHUNK_SIZE - 1) \div CHUNK_SIZE

start_index(ci) == ci * CHUNK_SIZE
end_index(ci) == Min(start_index(ci) + CHUNK_SIZE, num_segments)

SubLo(ci, sj) == start_index(ci) + sj
\* mutant: a sub-chunk runs to the end of its chunk
SubHi_Unbounded(ci, sj) == end_index(ci)

SubHi(ci, sj) == Min(SubLo(ci, sj) + SUB_CHUNK_SIZE, end_index(ci))
MiniLo(ci, sj, mk) == SubLo(ci, sj) + mk
\* mutant: a mini-chunk reaches one segment into the next one
MiniHi_Wide(ci, sj, mk) == Min(MiniLo(ci, sj, mk) + MINI_CHUNK_SIZE + 1, SubHi(ci, sj))

MiniHi(ci, sj, mk) == Min(MiniLo(ci, sj, mk) + MINI_CHUNK_SIZE, SubHi(ci, sj))

\* mutant: the next context overlaps the tail of the chunk
ChunkContext_Overlapping(ci) ==
  LET prev_start == Max(0, start_index(ci) - OVERLAP_SIZE)
      next_start == Max(0, end_index(ci) - OVERLAP_SIZE)
      next_end == Min(next_start + OVERLAP_SIZE, num_segments)
  IN [prev |-> Join(NEWLINE, Texts(Slice(segments, prev_start, start_index(ci)))),
      next |-> Join(NEWLINE, Texts(Slice(segments, next_start, next_end)))]

\* the context built for chunk ci
ChunkContext(ci) ==
  LET prev_start == Max(0, start_index(ci) - OVERLAP_SIZE)
      next_start == end_index(ci)
      next_end == Min(next_start + OVERLAP_SIZE, num_segments)
  IN [prev |-> Join(NEWLINE, Texts(Slice(segments, prev_start, start_index(ci)))),
      next |-> Join(NEWLINE, Texts(Slice(segments, next_start, next_end)))]

UnitLo(site) ==
  CASE site = "single" -> 0
    [] site = "chunk" -> start_index(i)
    [] site = "sub" -> SubLo(i, j)
    [] OTHER -> MiniLo(i, j, k)

UnitHi(site) ==
  CASE site = "single" -> num_segments
    [] site = "chunk" -> end_index(i)
    [] site = "sub" -> SubHi(i, j)
    [] OTHER -> MiniHi(i, j, k)

\* mutant: every call gets the context of the unit it submits
SiteContext_OwnBorders(site) ==
  IF site = "single" THEN [prev |-> <<>>, next |-> <<>>]
  ELSE LET prev_start == Max(0, UnitLo(site) - OVERLAP_SIZE)
           next_end == Min(UnitHi(site) + OVERLAP_SIZE, num_segments)
       IN [prev |-> Join(NEWLINE, Texts(Slice(segments, prev_start, UnitLo(site)))),
           next |-> Join(NEWLINE, Texts(Slice(segments, UnitHi(site), next_end)))]

\* the context argument: {} at line 157, the chunk's context at lines 192,
\* 205 and 214
SiteContext(site) ==
  IF site = "single" THEN [prev |-> <<>>, next |-> <<>>] ELSE ChunkContext(i)

\* the arguments of the _translate_chunk call made at a call site (the
\* reference material is told apart by its length)
BuildRequest(site) ==
  [id |-> Len(calls) + 1, level |-> site, lo |-> UnitLo(site), hi |-> UnitHi(site),
   main |-> Texts(Slice(segments, UnitLo(site), UnitHi(site))),
   ref |-> reference_len,
   prev |-> SiteContext(site).prev, next |-> SiteContext(site).next]

\* _translate_chunk's return value, from the backend's answer
TranslateChunkResult(r, rep) ==
  IF rep.kind # "json" THEN None
  ELSE IF Len(rep.items) # r.hi - r.lo THEN None
  ELSE Some(rep.items)

LogEntry(r, res) ==
  [id |-> r.id, level |-> r.level, lo |-> r.lo, hi |-> r.hi,
   ref |-> r.ref, prev |-> r.prev, next |-> r.next, ok |-> ~res.isNone]

\* split_long_segments is not running
SplitIdle ==
  /\ sp_pc = "idle"
  /\ sp_segments = <<>>
  /\ max_chars = 0 /\ max_duration = 0
  /\ seg_idx = 0 /\ word_idx = 0
  /\ current_chunk_words = <<>>
  /\ current_chunk_start = 0
  /\ split_segments = <<>>
  /\ split_origin = <<>>

\* fill_transcription_gaps is not running
GapIdle ==
  /\ gap_pc = "idle"
  /\ heap = <<>>
  /\ transcribed_segments = <<>>
  /\ gap_threshold = 0
  /\ filled_segments = <<>>
  /\ input_at_call = <<>>

\* adjust_subtitle_timing and generate_srt are not running
TimingIdle ==
  /\ timing_pc = "idle"
  /\ timing_segments = <<>>
  /\ time_buffer = 0
  /\ adjusted_segments = <<>>
  /\ readjusted_segments = <<>>
  /\ srt_file = <<>>

\* _process_video is not running
RunIdle ==
  /\ run_pc = "idle"
  /\ video_exists = FALSE
  /\ ffmpeg_installed = FALSE
  /\ audio_file = "absent"
  /\ audio_path = "unset"
  /\ translated_segments = NotReturned
  /\ exit_path = "running"

StagesIdle == GapIdle /\ TimingIdle /\ RunIdle

\* lines 145-148
TotalLength(segs, ref_len) ==
  CharLen(Join(NEWLINE, Texts(segs))) + ref_len + PROMPT_OVERHEAD

(***************************************************************************)
(* Initial states: translate_segments is about to choose its strategy.     *)
(***************************************************************************)
Init ==
  /\ \E n \in SegmentCounts :
       /\ \E silent \in Silences(n) : segments = MakeSegments(n, silent)
       /\ odd \in Oddities(n)
  /\ outage \in (IF odd.pos = 0 THEN BOOLEAN ELSE {FALSE})
  /\ reference_len \in ReferenceLens
  /\ total_length = TotalLength(segments, reference_len)
  /\ pc = "start"
  /\ phase = "call"
  /\ use_sliding_window = FALSE
  /\ translated_segments_text = Some(<<>>)
  /\ translated_chunk = <<>>
  /\ i = 0 /\ j = 0 /\ k = 0
  /\ req = NoReq
  /\ inflight = {}
  /\ reply = NoReply
  /\ calls = <<>>
  /\ fails = 0
  /\ returned = NotReturned
  /\ pipeline = "translating"
  /\ SplitIdle
  /\ StagesIdle

(***************************************************************************)
(* translate_segments, lines 140-171: the choice of strategy.              *)
(***************************************************************************)

\* mutant: the sliding window keeps what the failed single batch returned
EnterSlidingWindow_KeepPartial ==
  /\ use_sliding_window' = TRUE
  /\ translated_segments_text' = Some(reply.items)
  /\ i' = 0
  /\ pc' = IF num_chunks > 0 THEN "chunk" ELSE "assemble"
  /\ phase' = "call"

\* lines 169-171: the sliding window starts over the whole list
EnterSlidingWindow ==
  /\ use_sliding_window' = TRUE
  /\ translated_segments_text' = Some(<<>>)
  /\ i' = 0
  /\ pc' = IF num_chunks > 0 THEN "chunk" ELSE "assemble"
  /\ phase' = "call"

ChooseStrategy ==
  /\ pc = "start"
  /\ IF total_length < TOKEN_THRESHOLD
     THEN /\ pc' = "single"
          /\ phase' = "call"
          /\ UNCHANGED <<use_sliding_window, translated_segments_text, i>>
     ELSE EnterSlidingWindow
  /\ UNCHANGED <<segments, reference_len, total_length, odd, outage,
                 translated_chunk, j, k, req,
                 inflight, reply, calls, fails, returned, pipeline>>
  /\ UNCHANGED <<splitVars, stageVars>>

(***************************************************************************)
(* _translate_chunk: the request goes out and the caller blocks.           *)
(***************************************************************************)
Invoke ==
  /\ pc \in CallSites
  /\ phase = "call"
  /\ req' = BuildRequest(pc)
  /\ inflight' = inflight \cup {Len(calls) + 1}
  /\ reply' = NoReply
  /\ phase' = "wait"
  /\ UNCHANGED <<segments, reference_len, total_length, odd, outage,
                 pc, use_sliding_window,
                 translated_segments_text, translated_chunk, i, j, k,
                 calls, fails, returned, pipeline>>
  /\ UNCHANGED <<splitVars, stageVars>>

(***************************************************************************)
(* The backend answers the request in flight.                              *)
(***************************************************************************)
Answered(rep, failed) ==
  /\ phase = "wait"
  /\ req.id \in inflight
  /\ failed => (outage \/ fails < MaxFailures)
  /\ outage => failed
  /\ reply' = rep
  /\ inflight' = inflight \ {req.id}
  /\ fails' = IF failed THEN fails + 1 ELSE fails
  /\ phase' = "ret"
  /\ UNCHANGED <<segments, reference_len, total_length, odd, outage,
                 pc, use_sliding_window,
                 translated_segments_text, translated_chunk, i, j, k, req,
                 calls, returned, pipeline>>
  /\ UNCHANGED <<splitVars, stageVars>>

\* a JSON object whose "translations" array has as many elements as the request
BackendTranslates ==
  Answered([kind |-> "json", items |-> Answer(req, req.hi - req.lo)], FALSE)

\* a JSON object whose "translations" array has one element too few or too many
BackendMiscount ==
  \E d \in {-1, 1} :
    /\ req.hi - req.lo + d >= 0
    /\ Answered([kind |-> "json", items |-> Answer(req, req.hi - req.lo + d)], TRUE)

\* text that is not JSON, or JSON without a "translations" key
BackendMalformed ==
  Answered([kind |-> "malformed", items |-> <<>>], TRUE)

\* chain.invoke raises (transport, authentication, model error)
BackendError ==
  Answered([kind |-> "error", items |-> <<>>], TRUE)

(***************************************************************************)
(* translate_segments: what follows each call site.                        *)
(***************************************************************************)
\* lines 225-226 and the step of the loop at line 173
FinishChunk(tc) ==
  /\ translated_chunk' = tc
  /\ translated_segments_text' =
       IF tc # <<>> THEN Some(translated_segments_text.items \o tc)
       ELSE translated_segments_text
  /\ i' = i + 1
  /\ pc' = IF i + 1 < num_chunks THEN "chunk" ELSE "assemble"
  /\ phase' = "call"

\* the step of the loop at line 202
FinishSub(tc) ==
  IF j + SUB_CHUNK_SIZE < end_index(i) - start_index(i)
  THEN /\ translated_chunk' = tc
       /\ j' = j + SUB_CHUNK_SIZE
       /\ pc' = "sub"
       /\ phase' = "call"
       /\ UNCHANGED <<translated_segments_text, i>>
  ELSE /\ FinishChunk(tc)
       /\ UNCHANGED j

\* mutant: the mini-chunk loop stops after its first mini-chunk
FinishMini_Break(tc) ==
  /\ FinishSub(tc)
  /\ UNCHANGED k

\* the step of the loop at line 212
FinishMini(tc) ==
  IF k + MINI_CHUNK_SIZE < SubHi(i, j) - SubLo(i, j)
  THEN /\ translated_chunk' = tc
       /\ k' = k + MINI_CHUNK_SIZE
       /\ pc' = "mini"
       /\ phase' = "call"
       /\ UNCHANGED <<translated_segments_text, i, j>>
  ELSE /\ FinishSub(tc)
       /\ UNCHANGED k

\* lines 156-165
AfterSingle ==
  /\ pc = "single"
  /\ phase = "ret"
  /\ LET res == TranslateChunkResult(req, reply)
     IN /\ calls' = Append(calls, LogEntry(req, res))
        /\ IF res.isNone
           THEN EnterSlidingWindow
           ELSE /\ translated_segments_text' = res
                /\ pc' = "assemble"
                /\ phase' = "call"
                /\ UNCHANGED <<use_sliding_window, i>>
  /\ UNCHANGED <<segments, reference_len, total_length, odd, outage,
                 translated_chunk, j, k, req,
                 inflight, reply, fails, returned, pipeline>>
  /\ UNCHANGED <<splitVars, stageVars>>

\* lines 191-202
AfterChunk ==
  /\ pc = "chunk"
  /\ phase = "ret"
  /\ LET res == TranslateChunkResult(req, reply)
     IN /\ calls' = Append(calls, LogEntry(req, res))
        /\ IF res.isNone
           THEN /\ translated_chunk' = <<>>
                /\ j' = 0
                /\ pc' = "sub"
                /\ phase' = "call"
                /\ UNCHANGED <<translated_segments_text, i>>
           ELSE /\ FinishChunk(res.items)
                /\ UNCHANGED j
  /\ UNCHANGED <<segments, reference_len, total_length, odd, outage,
                 use_sliding_window, k, req,
                 inflight, reply, fails, returned, pipeline>>
  /\ UNCHANGED <<splitVars, stageVars>>

\* lines 205-212, 222-223
AfterSub ==
  /\ pc = "sub"
  /\ phase = "ret"
  /\ LET res == TranslateChunkResult(req, reply)
     IN /\ calls' = Append(calls, LogEntry(req, res))
        /\ IF res.isNone
           THEN /\ k' = 0
                /\ pc' = "mini"
                /\ phase' = "call"
                /\ UNCHANGED <<translated_segments_text, translated_chunk, i, j>>
           ELSE /\ FinishSub(translated_chunk \o res.items)
                /\ UNCHANGED k
  /\ UNCHANGED <<segments, reference_len, total_length, odd, outage,
                 use_sliding_window, req,
                 inflight, reply, fails, returned, pipeline>>
  /\ UNCHANGED <<splitVars, stageVars>>

\* mutant: a failed mini-chunk adds nothing to the chunk's translations
MiniFallback_Skip(n) == <<>>

\* line 219: [""] * len(mini_chunk)
MiniFallback(n) == Repeat(<<>>, n)

\* lines 214-221
AfterMini ==
  /\ pc = "mini"
  /\ phase = "ret"
  /\ LET res == TranslateChunkResult(req, reply)
     IN /\ calls' = Append(calls, LogEntry(req, res))
        /\ IF res.isNone
           THEN FinishMini(translated_chunk \o MiniFallback(req.hi - req.lo))
           ELSE FinishMini(translated_chunk \o res.items)
  /\ UNCHANGED <<segments, reference_len, total_length, odd, outage,
                 use_sliding_window, req,
                 inflight, reply, fails, returned, pipeline>>
  /\ UNCHANGED <<splitVars, stageVars>>

(***************************************************************************)
(* translate_segments, lines 228-251: the final step.                      *)
(***************************************************************************)
IsSilence(seg) == Strip(seg.text) = <<NO_SPEECH>>

\* line 240
CleanUp(translated_text) ==
  Strip(Replace(Replace(translated_text, FW_COMMA, SPACE), FW_STOP, SPACE))

\* mutant: the translated text is looked up before the silence test
FinalSegment_TranslationFirst(p, tst) ==
  LET segment == segments[p]
  IN IF p - 1 < Len(tst) THEN [segment EXCEPT !.text = CleanUp(tst[p])]
     ELSE [segment EXCEPT !.text = <<>>]

\* lines 231-244 for the segment at position p (1-based)
FinalSegment(p, tst) ==
  LET segment == segments[p]
  IN IF IsSilence(segment) THEN [segment EXCEPT !.text = <<>>]
     ELSE IF p - 1 < Len(tst) THEN [segment EXCEPT !.text = CleanUp(tst[p])]
     ELSE [segment EXCEPT !.text = <<>>]

\* line 240 raises AttributeError: the element has no replace method
CleanUpRaises(p, tst) ==
  /\ ~IsSilence(segments[p])
  /\ p - 1 < Len(tst)
  /\ tst[p] = NonString

Assemble ==
  /\ pc = "assemble"
  /\ LET tst == translated_segments_text.items
     IN returned' =
          IF \E p \in 1..num_segments : CleanUpRaises(p, tst)
          THEN None
          ELSE Some([p \in 1..num_segments |-> FinalSegment(p, tst)])
  /\ pc' = "done"
  /\ reply' = NoReply
  /\ UNCHANGED <<segments, reference_len, total_length, odd, outage,
                 phase, use_sliding_window,
                 translated_segments_text, translated_chunk, i, j, k, req,
                 inflight, calls, fails, pipeline>>
  /\ UNCHANGED <<splitVars, stageVars>>

(***************************************************************************)
(* _process_video, lines 113-149: what the pipeline does with the result.  *)
(***************************************************************************)
\* python truth value of translate_segments' result
Truthy(res) == ~res.isNone /\ res.items # <<>>

ProcessVideoContinue ==
  /\ pc = "done"
  /\ pipeline = "translating"
  /\ pipeline' = IF Truthy(returned) THEN "subtitled" ELSE "no_subtitles"
  /\ UNCHANGED <<segments, reference_len, total_length, odd, outage,
                 pc, phase, use_sliding_window,
                 translated_segments_text, translated_chunk, i, j, k, req,
                 inflight, reply, calls, fails, returned>>
  /\ UNCHANGED <<splitVars, stageVars>>

Next ==
  \/ ChooseStrategy
  \/ Invoke
  \/ BackendTranslates
  \/ BackendMiscount
  \/ BackendMalformed
  \/ BackendError
  \/ AfterSingle
  \/ AfterChunk
  \/ AfterSub
  \/ AfterMini
  \/ Assemble
  \/ ProcessVideoContinue

Spec == Init /\ [][Next]_vars

\* Runs for the question of termination: what the texts are does not change
\* the course of the calls, so the list has no silence placeholder and the
\* answers are plain.
InitFair ==
  /\ Init
  /\ odd.pos = 0
  /\ \A p \in DOMAIN segments : ~IsSilence(segments[p])

\* the run goes on as long as a step can be taken: the code is sequential
\* and chain.invoke returns or raises
FairSpec == InitFair /\ [][Next]_vars /\ WF_vars(Next)

(***************************************************************************)
(* split_long_segments (subtitles.py).  Times are whole numbers.           *)
(***************************************************************************)
\* most words a segment carries
MaxWords == 3

\* a word's text: blank in front (Whisper's form), blank behind, or long
WordTexts == {<<SPACE, "ab">>, <<"ab", SPACE>>, <<"abcdef">>}
WordDurations == {1, 3}
WordGaps == {0, 1}
CharLimits == {5, 8}
DurationLimits == {2, 5}

\* "".join([w["word"] for w in words])
RECURSIVE JoinWords(_)
JoinWords(ws) ==
  IF ws = <<>> THEN <<>> ELSE Head(ws).word \o JoinWords(Tail(ws))

\* the words of a segment starting at time t0: texts and durations given,
\* each word starting gap after the previous one ends
RECURSIVE TimedWords(_, _, _, _)
TimedWords(texts, durs, gap, t0) ==
  IF texts = <<>> THEN <<>>
  ELSE <<[word |-> Head(texts), start |-> t0, end |-> t0 + Head(durs)]>>
       \o TimedWords(Tail(texts), Tail(durs), gap, t0 + Head(durs) + gap)

\* a segment with word timestamps: its words span it and spell its text
WordedSegment(ws) ==
  [text |-> JoinWords(ws), start |-> ws[1].start, end |-> ws[Len(ws)].end, words |-> ws]

\* a segment without word timestamps
PlainSegment(text, t0, t1) == [text |-> text, start |-> t0, end |-> t1, words |-> <<>>]

WordedSegments(t0) ==
  {WordedSegment(TimedWords(texts, durs, gap, t0)) :
     texts \in UNION {[1..n -> WordTexts] : n \in 1..MaxWords},
     durs \in [1..MaxWords -> WordDurations],
     gap \in WordGaps}

PlainSegments(t0) ==
  {PlainSegment(text, t0, t0 + d) : text \in {<<SPACE, "ab">>, <<"abcdefghi">>}, d \in {2, 9}}

\* a second segment, after the first one
TailSegments(t0) ==
  {PlainSegment(<<"abcdefghi">>, t0, t0 + 2),
   WordedSegment(TimedWords(<<<<"abcdef">>, <<SPACE, "ab">>>>, <<1, 3>>, 0, t0))}

SplitInputs ==
  LET firsts == WordedSegments(0) \cup PlainSegments(0)
  IN {<<a>> : a \in firsts} \cup
     {<<a, b>> : a \in PlainSegments(0), b \in WordedSegments(10)} \cup
     UNION {{<<a, b>> : b \in TailSegments(a.end + 1)} : a \in firsts}

\* translate_segments is not running
TranslateIdle ==
  /\ segments = <<>>
  /\ reference_len = 0
  /\ total_length = 0
  /\ odd = [pos |-> 0, kind |-> "plain"]
  /\ outage = FALSE
  /\ pc = "idle"
  /\ phase = "call"
  /\ use_sliding_window = FALSE
  /\ translated_segments_text = Some(<<>>)
  /\ translated_chunk = <<>>
  /\ i = 0 /\ j = 0 /\ k = 0
  /\ req = NoReq
  /\ inflight = {}
  /\ reply = NoReply
  /\ calls = <<>>
  /\ fails = 0
  /\ returned = NotReturned
  /\ pipeline = "translating"

\* split_long_segments is called: line 20
InitSplit ==
  /\ TranslateIdle
  /\ StagesIdle
  /\ sp_segments \in SplitInputs
  /\ max_chars \in CharLimits
  /\ max_duration \in DurationLimits
  /\ sp_pc = "segment"
  /\ seg_idx = 1
  /\ word_idx = 0
  /\ current_chunk_words = <<>>
  /\ current_chunk_start = 0
  /\ split_segments = <<>>
  /\ split_origin = <<>>

\* line 30
ShortEnough(seg) ==
  CharLen(Strip(seg.text)) <= max_chars /\ seg.end - seg.start <= max_duration

\* the step of the loop at line 22, and the return at line 73
NextSegment ==
  /\ seg_idx' = seg_idx + 1
  /\ sp_pc' = IF seg_idx + 1 <= Len(sp_segments) THEN "segment" ELSE "done"

\* lines 29-32: a segment within both limits is kept as it is
SplitKeepShort ==
  /\ sp_pc = "segment"
  /\ ShortEnough(sp_segments[seg_idx])
  /\ split_segments' = Append(split_segments, sp_segments[seg_idx])
  /\ split_origin' = Append(split_origin, seg_idx)
  /\ NextSegment
  /\ UNCHANGED <<sp_segments, max_chars, max_duration, word_idx,
                 current_chunk_words, current_chunk_start>>
  /\ UNCHANGED <<translateVars, stageVars>>

\* lines 34-37: a long segment without word timestamps is kept as it is
SplitKeepUnworded ==
  /\ sp_pc = "segment"
  /\ ~ShortEnough(sp_segments[seg_idx])
  /\ sp_segments[seg_idx].words = <<>>
  /\ split_segments' = Append(split_segments, sp_segments[seg_idx])
  /\ split_origin' = Append(split_origin, seg_idx)
  /\ NextSegment
  /\ UNCHANGED <<sp_segments, max_chars, max_duration, word_idx,
                 current_chunk_words, current_chunk_start>>
  /\ UNCHANGED <<translateVars, stageVars>>

\* lines 39-41: the word loop of a long segment starts
SplitBegin ==
  /\ sp_pc = "segment"
  /\ ~ShortEnough(sp_segments[seg_idx])
  /\ sp_segments[seg_idx].words # <<>>
  /\ current_chunk_words' = <<>>
  /\ current_chunk_start' = sp_segments[seg_idx].words[1].start
  /\ word_idx' = 1
  /\ sp_pc' = "word"
  /\ UNCHANGED <<sp_segments, max_chars, max_duration, seg_idx, split_segments,
                 split_origin>>
  /\ UNCHANGED <<translateVars, stageVars>>

\* line 47
ChunkText(ws) == Strip(JoinWords(ws))

\* mutant: the look-ahead forgets the duration limit
NextWordBreaks_CharsOnly(chunk_text, chunk_start, next_word) ==
  CharLen(chunk_text) + CharLen(next_word.word) > max_chars

\* lines 54-57: would the next word break a limit?
NextWordBreaks(chunk_text, chunk_start, next_word) ==
  \/ CharLen(chunk_text) + CharLen(next_word.word) > max_chars
  \/ next_word.end - chunk_start > max_duration

\* mutant: the next chunk keeps the start of the chunk just closed
NextChunkStart_Stale(words, wi) == current_chunk_start

\* line 70: the next chunk starts at the next word
NextChunkStart(words, wi) == words[wi + 1].start

\* lines 43-71: one pass of the word loop
SplitWord ==
  /\ sp_pc = "word"
  /\ LET words == sp_segments[seg_idx].words
         word_info == words[word_idx]
         chunk_words == Append(current_chunk_words, word_info)
         chunk_text == ChunkText(chunk_words)
         last == word_idx = Len(words)
         next_word_breaks ==
           ~last /\ NextWordBreaks(chunk_text, current_chunk_start, words[word_idx + 1])
     IN /\ IF next_word_breaks \/ last
           THEN /\ split_segments' =
                     Append(split_segments,
                            [text |-> chunk_text, start |-> current_chunk_start,
                             end |-> word_info.end, words |-> chunk_words])
                /\ split_origin' = Append(split_origin, seg_idx)
                /\ IF ~last
                   THEN /\ current_chunk_start' = NextChunkStart(words, word_idx)
                        /\ current_chunk_words' = <<>>
                   ELSE /\ current_chunk_start' = current_chunk_start
                        /\ current_chunk_words' = chunk_words
           ELSE /\ current_chunk_words' = chunk_words
                /\ UNCHANGED <<split_segments, split_origin, current_chunk_start>>
        /\ IF last
           THEN /\ NextSegment
                /\ UNCHANGED word_idx
           ELSE /\ word_idx' = word_idx + 1
                /\ UNCHANGED <<sp_pc, seg_idx>>
  /\ UNCHANGED <<sp_segments, max_chars, max_duration>>
  /\ UNCHANGED <<translateVars, stageVars>>

NextSplit ==
  \/ SplitKeepShort
  \/ SplitKeepUnworded
  \/ SplitBegin
  \/ SplitWord

SpecSplit == InitSplit /\ [][NextSplit]_vars

(***************************************************************************)
(* fill_transcription_gaps (subtitles.py).  The lists hold references to   *)
(* segment objects; heap[r] is the object behind reference r.              *)
(***************************************************************************)
\* most segments in a stream handed to a subtitle stage
MaxSegments == 3

GapThresholds == {2, 5}
\* the silence between two neighbours: overlap, none, at or over a threshold
Gaps == {-1, 0, 2, 3, 5, 6}

\* the default of the parameter placeholder
placeholder == <<NO_SPEECH>>

\* start of the p-th segment of a stream whose segments last 2 and lie
\* gs[q] apart
RECURSIVE StartOf(_, _)
StartOf(gs, p) == IF p = 1 THEN 0 ELSE StartOf(gs, p - 1) + 2 + gs[p - 1]

StreamOf(n, gs) ==
  [p \in 1..n |-> [text |-> <<"ko" \o ToString(p)>>,
                   start |-> StartOf(gs, p), end |-> StartOf(gs, p) + 2]]

\* the objects a list of references points to
Deref(h, refs) == [x \in DOMAIN refs |-> h[refs[x]]]

\* mutant: a gap as long as the threshold is filled too
GapExceeds_OrEqual(gap, threshold) == gap >= threshold

\* line 102
GapExceeds(gap, threshold) == gap > threshold

\* lines 96-110: the loop from iteration gi (0-based) on
RECURSIVE FillLoop(_, _, _, _, _)
FillLoop(ts, gi, filled, h, threshold) ==
  IF gi >= Len(ts) - 1 THEN [filled_segments |-> filled, heap |-> h]
  ELSE LET current_seg == h[ts[gi + 1]]
           next_seg == h[ts[gi + 2]]
           gap == next_seg.start - current_seg.end
       IN IF GapExceeds(gap, threshold)
          THEN FillLoop(ts, gi + 1, filled \o <<Len(h) + 1, ts[gi + 2]>>,
                        Append(h, [text |-> placeholder, start |-> current_seg.end,
                                   end |-> next_seg.start]),
                        threshold)
          ELSE FillLoop(ts, gi + 1, Append(filled, ts[gi + 2]), h, threshold)

\* mutant: the list is not seeded with the first segment
fill_transcription_gaps_NoFirst(ts, h, threshold) ==
  IF ts = <<>> THEN [filled_segments |-> <<>>, heap |-> h]
  ELSE FillLoop(ts, 0, <<>>, h, threshold)

\* lines 92-112: the returned list and the heap after the call
fill_transcription_gaps(ts, h, threshold) ==
  IF ts = <<>> THEN [filled_segments |-> <<>>, heap |-> h]
  ELSE FillLoop(ts, 0, <<ts[1]>>, h, threshold)

InitGaps ==
  /\ TranslateIdle
  /\ SplitIdle
  /\ TimingIdle
  /\ RunIdle
  /\ \E n \in 0..MaxSegments : \E gs \in [1..(n - 1) -> Gaps] : heap = StreamOf(n, gs)
  /\ transcribed_segments = [p \in 1..Len(heap) |-> p]
  /\ gap_threshold \in GapThresholds
  /\ gap_pc = "call"
  /\ filled_segments = <<>>
  /\ input_at_call = <<>>

CallFillTranscriptionGaps ==
  /\ gap_pc = "call"
  /\ LET res == fill_transcription_gaps(transcribed_segments, heap, gap_threshold)
     IN /\ filled_segments' = res.filled_segments
        /\ heap' = res.heap
  /\ input_at_call' = Deref(heap, transcribed_segments)
  /\ gap_pc' = "returned"
  /\ UNCHANGED <<transcribed_segments, gap_threshold>>
  /\ UNCHANGED <<translateVars, splitVars, timingVars, runVars>>

NextGaps == CallFillTranscriptionGaps

SpecGaps == InitGaps /\ [][NextGaps]_vars

(***************************************************************************)
(* adjust_subtitle_timing and generate_srt (subtitles.py), chained as in   *)
(* _process_video.  Times are whole seconds.                               *)
(***************************************************************************)
SegmentStarts == {1, 3, 6}
\* end - start of an input segment; a negative one is an ill-timed segment
SegmentLengths == {-1, 2}
TimeBuffers == {-1, 0, 1, 3}

\* a stream with the given starts and lengths; the segment at position
\* blank, if any, has empty text
TimedStream(starts, lens, blank) ==
  [p \in DOMAIN starts |->
     [text |-> IF p = blank THEN <<>> ELSE <<"en" \o ToString(p)>>,
      start |-> starts[p], end |-> starts[p] + lens[p]]]

TimingInputs ==
  UNION {{TimedStream(starts, lens, blank) :
            starts \in [1..n -> SegmentStarts],
            lens \in [1..n -> SegmentLengths],
            blank \in {b \in {0, 1} : b <= n}} : n \in 0..MaxSegments}

\* mutant: a negative buffer is used as it is
EffectiveBuffer_Raw(tb) == tb

\* line 129
EffectiveBuffer(tb) == Max(0, tb)

\* mutant: the end is taken from the next segment's end
NewEndTime_FromNextEnd(next_segment, tb) == next_segment.end - tb

\* line 141
NewEndTime(next_segment, tb) == next_segment.start - tb

\* mutant: an end before the start is left alone
ClampEnd_None(seg) == seg

\* lines 147-151
ClampEnd(seg) == IF seg.end < seg.start THEN [seg EXCEPT !.end = seg.start] ELSE seg

\* lines 136-151: the loop from iteration ti (0-based) on, over the copies
RECURSIVE AdjustLoop(_, _, _)
AdjustLoop(adjusted, ti, tb) ==
  IF ti >= Len(adjusted) - 1 THEN adjusted
  ELSE LET next_segment == adjusted[ti + 2]
           current_segment == [adjusted[ti + 1] EXCEPT !.end = NewEndTime(next_segment, tb)]
       IN AdjustLoop([adjusted EXCEPT ![ti + 1] = ClampEnd(current_segment)], ti + 1, tb)

\* lines 129-155
adjust_subtitle_timing(segs, tb) ==
  IF segs = <<>> THEN <<>> ELSE AdjustLoop(segs, 0, EffectiveBuffer(tb))

\* f"{n:0w}" for n >= 0
RECURSIVE Pad(_, _)
Pad(str, width) == IF Len(str) >= width THEN str ELSE Pad("0" \o str, width)

\* lines 173-174: HH:MM:SS,mmm of a time in whole seconds
SrtTime(t) ==
  Pad(ToString(t \div 3600), 2) \o ":" \o Pad(ToString((t % 3600) \div 60), 2) \o ":"
    \o Pad(ToString(t % 60), 2) \o "," \o Pad(ToString((t % 1) * 1000), 3)

\* mutant: blocks are numbered from 0
SrtIndex_ZeroBased(si) == si

\* line 176: the number of the block of the segment at (0-based) index si
SrtIndex(si) == si + 1

\* lines 176-178: the three strings written for one segment
SrtBlock(si, seg) ==
  << <<ToString(SrtIndex(si)), NEWLINE>>,
     <<SrtTime(seg.start) \o " --> " \o SrtTime(seg.end), NEWLINE>>,
     seg.text \o <<NEWLINE, NEWLINE>> >>

\* lines 167-178: the loop from index si on
RECURSIVE SrtLoop(_, _)
SrtLoop(segs, si) ==
  IF si >= Len(segs) THEN <<>> ELSE SrtBlock(si, segs[si + 1]) \o SrtLoop(segs, si + 1)

\* what generate_srt writes to the file
generate_srt(segs) == SrtLoop(segs, 0)

InitTiming ==
  /\ TranslateIdle
  /\ SplitIdle
  /\ GapIdle
  /\ RunIdle
  /\ timing_segments \in TimingInputs
  /\ time_buffer \in TimeBuffers
  /\ timing_pc = "call"
  /\ adjusted_segments = <<>>
  /\ readjusted_segments = <<>>
  /\ srt_file = <<>>

\* main.py lines 124-125
CallAdjustSubtitleTiming ==
  /\ timing_pc = "call"
  /\ adjusted_segments' = adjust_subtitle_timing(timing_segments, time_buffer)
  /\ timing_pc' = "adjusted"
  /\ UNCHANGED <<timing_segments, time_buffer, readjusted_segments, srt_file>>
  /\ UNCHANGED <<translateVars, splitVars, gapVars, runVars>>

\* adjust_subtitle_timing applied to its own result, with the same buffer
CallAdjustSubtitleTimingAgain ==
  /\ timing_pc = "adjusted"
  /\ readjusted_segments' = adjust_subtitle_timing(adjusted_segments, time_buffer)
  /\ timing_pc' = "twice"
  /\ UNCHANGED <<timing_segments, time_buffer, adjusted_segments, srt_file>>
  /\ UNCHANGED <<translateVars, splitVars, gapVars, runVars>>

\* main.py line 136
CallGenerateSrt ==
  /\ timing_pc = "adjusted"
  /\ srt_file' = generate_srt(adjusted_segments)
  /\ timing_pc' = "written"
  /\ UNCHANGED <<timing_segments, time_buffer, adjusted_segments, readjusted_segments>>
  /\ UNCHANGED <<translateVars, splitVars, gapVars, runVars>>

NextTiming ==
  \/ CallAdjustSubtitleTiming
  \/ CallAdjustSubtitleTimingAgain
  \/ CallGenerateSrt

SpecTiming == InitTiming /\ [][NextTiming]_vars

(***************************************************************************)
(* _process_video (main.py) and extract_audio (video_processing.py): one   *)
(* run of the pipeline and the audio file it extracts.                     *)
(***************************************************************************)
\* the default of fill_transcription_gaps' parameter gap_threshold
DEFAULT_GAP_THRESHOLD == 5

\* args.time_buffer
RunTimeBuffers == {0, 1}

\* the statements of the try block that call a stage
TrySteps == {"keywords", "transcribe", "split", "fill", "load_reference",
             "translate", "adjust", "generate_srt", "burn"}

\* what translate_segments returns for a list when it returns one: copies
\* with the text replaced, silence placeholders emptied
TranslatedCopies(segs) ==
  [x \in DOMAIN segs |->
     [segs[x] EXCEPT !.text = IF IsSilence(segs[x]) THEN <<>>
                               ELSE <<"en" \o ToString(x)>>]]

InitRun ==
  /\ TranslateIdle
  /\ SplitIdle
  /\ GapIdle
  /\ timing_pc = "idle"
  /\ timing_segments = <<>>
  /\ time_buffer \in RunTimeBuffers
  /\ adjusted_segments = <<>>
  /\ readjusted_segments = <<>>
  /\ srt_file = <<>>
  /\ run_pc = "extract_audio"
  /\ video_exists \in BOOLEAN
  /\ ffmpeg_installed \in BOOLEAN
  /\ audio_file \in {"absent", "foreign"}
  /\ audio_path = "unset"
  /\ translated_segments = NotReturned
  /\ exit_path = "running"

\* main.py lines 79-80: extract_audio returned None
ReturnWithoutAudio ==
  /\ audio_path' = "None"
  /\ run_pc' = "ended"
  /\ exit_path' = "no_audio"

\* video_processing.py lines 21-23
ExtractAudioVideoMissing ==
  /\ run_pc = "extract_audio"
  /\ ~video_exists
  /\ ReturnWithoutAudio
  /\ UNCHANGED <<video_exists, ffmpeg_installed, audio_file, translated_segments>>
  /\ UNCHANGED <<translateVars, splitVars, gapVars, timingVars>>

\* video_processing.py lines 43-46
ExtractAudioNoFfmpeg ==
  /\ run_pc = "extract_audio"
  /\ video_exists
  /\ ~ffmpeg_installed
  /\ ReturnWithoutAudio
  /\ UNCHANGED <<video_exists, ffmpeg_installed, audio_file, translated_segments>>
  /\ UNCHANGED <<translateVars, splitVars, gapVars, timingVars>>

\* video_processing.py lines 47-51: ffmpeg exits with an error, before it
\* opened its output file or after it wrote a part of it
ExtractAudioFfmpegFails ==
  /\ run_pc = "extract_audio"
  /\ video_exists
  /\ ffmpeg_installed
  /\ audio_file' \in {audio_file, "partial"}
  /\ ReturnWithoutAudio
  /\ UNCHANGED <<video_exists, ffmpeg_installed, translated_segments>>
  /\ UNCHANGED <<translateVars, splitVars, gapVars, timingVars>>

\* video_processing.py lines 41-53, main.py line 82
ExtractAudioSucceeds ==
  /\ run_pc = "extract_audio"
  /\ video_exists
  /\ ffmpeg_installed
  /\ audio_file' = "extracted"
  /\ audio_path' = "path"
  /\ run_pc' = "keywords"
  /\ UNCHANGED <<video_exists, ffmpeg_installed, translated_segments, exit_path>>
  /\ UNCHANGED <<translateVars, splitVars, gapVars, timingVars>>

\* main.py lines 84-88
RunKeywords ==
  /\ run_pc = "keywords"
  /\ run_pc' = "transcribe"
  /\ UNCHANGED <<video_exists, ffmpeg_installed, audio_file, audio_path,
                 translated_segments, exit_path>>
  /\ UNCHANGED <<translateVars, splitVars, gapVars, timingVars>>

\* main.py lines 90-98: transcribe_audio returned None or an empty list
RunTranscribeNothing ==
  /\ run_pc = "transcribe"
  /\ exit_path' \in {"transcription_failed", "no_segments"}
  /\ run_pc' = "finally"
  /\ UNCHANGED <<video_exists, ffmpeg_installed, audio_file, audio_path,
                 translated_segments>>
  /\ UNCHANGED <<translateVars, splitVars, gapVars, timingVars>>

\* main.py lines 90-100: transcribe_audio returned segments
RunTranscribe ==
  /\ run_pc = "transcribe"
  /\ \E n \in 1..MaxSegments : \E gs \in [1..(n - 1) -> Gaps] : heap' = StreamOf(n, gs)
  /\ transcribed_segments' = [p \in 1..Len(heap') |-> p]
  /\ run_pc' = "split"
  /\ UNCHANGED <<gap_pc, gap_threshold, filled_segments, input_at_call>>
  /\ UNCHANGED <<video_exists, ffmpeg_installed, audio_file, audio_path,
                 translated_segments, exit_path>>
  /\ UNCHANGED <<translateVars, splitVars, timingVars>>

\* main.py line 103: the segments transcribed here are within the default
\* limits of split_long_segments, which keeps them (subtitles.py lines 29-32)
RunSplit ==
  /\ run_pc = "split"
  /\ run_pc' = "fill"
  /\ UNCHANGED <<video_exists, ffmpeg_installed, audio_file, audio_path,
                 translated_segments, exit_path>>
  /\ UNCHANGED <<translateVars, splitVars, gapVars, timingVars>>

\* main.py line 107
RunFill ==
  /\ run_pc = "fill"
  /\ LET res == fill_transcription_gaps(transcribed_segments, heap, DEFAULT_GAP_THRESHOLD)
     IN /\ transcribed_segments' = res.filled_segments
        /\ heap' = res.heap
  /\ run_pc' = "load_reference"
  /\ UNCHANGED <<gap_pc, gap_threshold, filled_segments, input_at_call>>
  /\ UNCHANGED <<video_exists, ffmpeg_installed, audio_file, audio_path,
                 translated_segments, exit_path>>
  /\ UNCHANGED <<translateVars, splitVars, timingVars>>

\* main.py line 111
RunLoadReference ==
  /\ run_pc = "load_reference"
  /\ run_pc' = "translate"
  /\ UNCHANGED <<video_exists, ffmpeg_installed, audio_file, audio_path,
                 translated_segments, exit_path>>
  /\ UNCHANGED <<translateVars, splitVars, gapVars, timingVars>>

\* main.py lines 113-120: translate_segments returns a list or None
RunTranslate ==
  /\ run_pc = "translate"
  /\ translated_segments' \in
       {None, Some(TranslatedCopies(Deref(heap, transcribed_segments)))}
  /\ IF Truthy(translated_segments')
     THEN run_pc' = "adjust" /\ UNCHANGED exit_path
     ELSE run_pc' = "finally" /\ exit_path' = "no_translation"
  /\ UNCHANGED <<video_exists, ffmpeg_installed, audio_file, audio_path>>
  /\ UNCHANGED <<translateVars, splitVars, gapVars, timingVars>>

\* main.py lines 124-126
RunAdjust ==
  /\ run_pc = "adjust"
  /\ adjusted_segments' = adjust_subtitle_timing(translated_segments.items, time_buffer)
  /\ run_pc' = "generate_srt"
  /\ UNCHANGED <<timing_pc, timing_segments, time_buffer, readjusted_segments, srt_file>>
  /\ UNCHANGED <<video_exists, ffmpeg_installed, audio_file, audio_path,
                 translated_segments, exit_path>>
  /\ UNCHANGED <<translateVars, splitVars, gapVars>>

\* main.py lines 128-136
RunGenerateSrt ==
  /\ run_pc = "generate_srt"
  /\ srt_file' = generate_srt(adjusted_segments)
  /\ run_pc' = "burn"
  /\ UNCHANGED <<timing_pc, timing_segments, time_buffer, adjusted_segments,
                 readjusted_segments>>
  /\ UNCHANGED <<video_exists, ffmpeg_installed, audio_file, audio_path,
                 translated_segments, exit_path>>
  /\ UNCHANGED <<translateVars, splitVars, gapVars>>

\* main.py lines 139-149: burn_subtitles_into_video reports ffmpeg's failure
\* and returns (video_processing.py lines 105-117)
RunBurn ==
  /\ run_pc = "burn"
  /\ exit_path' \in {"success", "burn_failed"}
  /\ run_pc' = "finally"
  /\ UNCHANGED <<video_exists, ffmpeg_installed, audio_file, audio_path,
                 translated_segments>>
  /\ UNCHANGED <<translateVars, splitVars, gapVars, timingVars>>

\* a statement of the try block raises
RunRaises ==
  /\ run_pc \in TrySteps
  /\ exit_path' = "exception"
  /\ run_pc' = "finally"
  /\ UNCHANGED <<video_exists, ffmpeg_installed, audio_file, audio_path,
                 translated_segments>>
  /\ UNCHANGED <<translateVars, splitVars, gapVars, timingVars>>

\* main.py lines 151-153
RunFinally ==
  /\ run_pc = "finally"
  /\ audio_file' = IF audio_file # "absent" THEN "absent" ELSE audio_file
  /\ run_pc' = "ended"
  /\ UNCHANGED <<video_exists, ffmpeg_installed, audio_path, translated_segments,
                 exit_path>>
  /\ UNCHANGED <<translateVars, splitVars, gapVars, timingVars>>

NextRun ==
  \/ ExtractAudioVideoMissing
  \/ ExtractAudioNoFfmpeg
  \/ ExtractAudioFfmpegFails
  \/ ExtractAudioSucceeds
  \/ RunKeywords
  \/ RunTranscribeNothing
  \/ RunTranscribe
  \/ RunSplit
  \/ RunFill
  \/ RunLoadReference
  \/ RunTranslate
  \/ RunAdjust
  \/ RunGenerateSrt
  \/ RunBurn
  \/ RunRaises
  \/ RunFinally

SpecRun == InitRun /\ [][NextRun]_vars

(***************************************************************************)
(* Properties of translate_segments.                                       *)
(***************************************************************************)
Finished == pc = "done"
ReturnedList == Finished /\ ~returned.isNone
Output == returned.items

\* the logged calls of a level
CallsAt(level) == {c \in 1..Len(calls) : calls[c].level = level}
Covers(c, p) == calls[c].lo < p /\ p <= calls[c].hi
SingleFailed == Len(calls) >= 1 /\ calls[1].level = "single" /\ ~calls[1].ok

\* C1: the list translate_segments returns has exactly as many segments as
\* its input, whatever the backend answered at any level.
C1_OutputLengthEqualsInput ==
  Finished => (~returned.isNone /\ Len(Output) = Len(segments))

\* C2: output segment p keeps the start and end of input segment p, and its
\* text is empty or the cleaned element that a successful call covering p
\* returned for p; no translation lands on another position.
C2_AlignmentPreserved ==
  ReturnedList =>
    /\ Len(Output) = Len(segments)
    /\ \A p \in 1..Len(segments) :
         /\ Output[p].start = segments[p].start
         /\ Output[p].end = segments[p].end
         /\ \/ Output[p].text = <<>>
            \/ \E c \in 1..Len(calls) :
                 /\ calls[c].ok
                 /\ Covers(c, p)
                 /\ Output[p].text = CleanUp(Elem(calls[c].id, p))

\* C2 witness: a mini-chunk fell back to empty strings and a later position
\* still carries the translation returned for it.
C2_Witness ==
  /\ ReturnedList
  /\ \E p, q \in 1..Len(segments) :
       /\ p < q
       /\ \E c \in CallsAt("mini") : ~calls[c].ok /\ Covers(c, p)
       /\ Output[p].text = <<>>
       /\ \E c \in 1..Len(calls) :
            /\ calls[c].ok /\ Covers(c, q)
            /\ Output[q].text = <<Tag(calls[c].id, q)>>

\* the latest call of a level logged before call c
Parent(c, level) ==
  LET before == {d \in CallsAt(level) : d < c}
  IN IF before = {} THEN 0 ELSE CHOOSE d \in before : \A e \in before : e <= d

\* call c is one of the units of width size into which its parent d is cut
IsUnitOf(c, d, size) ==
  /\ d # 0
  /\ ~calls[d].ok
  /\ calls[d].lo <= calls[c].lo
  /\ (calls[c].lo - calls[d].lo) % size = 0
  /\ calls[c].hi = Min(calls[c].lo + size, calls[d].hi)
  /\ calls[c].lo < calls[c].hi

\* C3: the sliding-window fallback is three levels deep: sub-chunks of 50
\* are called only inside a chunk whose call failed, mini-chunks of 10 only
\* inside a sub-chunk whose call failed, a fallback empty string appears only
\* where the chunk, sub-chunk and mini-chunk calls all failed, and what a
\* successful unit returned is kept.
C3_ThreeLevelFallback ==
  /\ \A c \in CallsAt("sub") : IsUnitOf(c, Parent(c, "chunk"), SUB_CHUNK_SIZE)
  /\ \A c \in CallsAt("mini") :
       /\ IsUnitOf(c, Parent(c, "sub"), MINI_CHUNK_SIZE)
       /\ Parent(c, "chunk") < Parent(c, "sub")
  /\ (use_sliding_window /\ pc \in {"assemble", "done"}) =>
       /\ Len(translated_segments_text.items) = Len(segments)
       /\ \A p \in 1..Len(segments) :
            LET text == translated_segments_text.items[p]
            IN /\ text = <<>> =>
                    \A level \in {"chunk", "sub", "mini"} :
                      \E c \in CallsAt(level) : ~calls[c].ok /\ Covers(c, p)
               /\ \A c \in 1..Len(calls) :
                    (calls[c].level # "single" /\ calls[c].ok /\ Covers(c, p))
                      => text = Elem(calls[c].id, p)

\* C3 witness: the backend returned 2 elements for a 3-element chunk and the
\* code goes on to the sub-chunk of that chunk.
C3_Witness ==
  /\ pc = "sub" /\ phase = "call"
  /\ reply.kind = "json" /\ Len(reply.items) = 2
  /\ req.level = "chunk" /\ req.hi - req.lo = 3
  /\ ~calls[Len(calls)].ok

\* C3 second witness state: a position got the fallback empty string while
\* a sibling mini-chunk and a sibling sub-chunk kept their results.
C3_WitnessSiblings ==
  /\ use_sliding_window /\ pc = "assemble"
  /\ \E c \in CallsAt("mini") : ~calls[c].ok
  /\ \E c \in CallsAt("mini") : calls[c].ok
  /\ \E c \in CallsAt("sub") : calls[c].ok

\* C4: translate_segments never returns None, whatever calls fail, so the
\* pipeline goes on to timing adjustment and subtitle emission.
C4_NeverReturnsNone ==
  /\ Finished => ~returned.isNone
  /\ (pipeline = "no_subtitles") => Len(segments) = 0

\* C5: a segment whose source text is exactly "[no speech]" has empty text
\* in the output, whatever the backend returned for it.
C5_SilenceForcedEmpty ==
  ReturnedList =>
    \A p \in 1..Len(segments) :
      segments[p].text = <<NO_SPEECH>> => Output[p].text = <<>>

\* C5 witness: the backend returned a non-empty element for a "[no speech]"
\* segment and the output text of that segment is empty.
C5_Witness ==
  /\ ReturnedList
  /\ \E p \in 1..Len(segments) :
       /\ segments[p].text = <<NO_SPEECH>>
       /\ p <= Len(translated_segments_text.items)
       /\ translated_segments_text.items[p] # <<>>
       /\ Output[p].text = <<>>

\* the chunks of the sliding window cover the whole list from index 0
WholeStreamInChunks ==
  \A ci \in 0..(num_chunks - 1) :
    \E c \in CallsAt("chunk") :
      /\ c >= 2
      /\ calls[c].lo = ci * CHUNK_SIZE
      /\ calls[c].hi = Min(ci * CHUNK_SIZE + CHUNK_SIZE, Len(segments))

SourceWindow(a, b) == Join(NEWLINE, [q \in 1..(b - a) |-> segments[a + q].text])

ContextOK(r) ==
  LET s == r.lo
      e == r.hi
      n == Len(segments)
  IN /\ r.prev = SourceWindow(IF s - OVERLAP_SIZE > 0 THEN s - OVERLAP_SIZE ELSE 0, s)
     /\ r.next = SourceWindow(e, IF e + OVERLAP_SIZE < n THEN e + OVERLAP_SIZE ELSE n)

\* C7: the chunk-level call for indices [s, e) carries as context the source
\* text of segments max(0, s-3)..s-1 and e..min(e+3, n)-1, the request holds
\* the source text of [s, e) only, and the accumulated translations hold
\* one element per chunk segment, none for a context segment.
C7_ContextWindow ==
  /\ \A c \in CallsAt("chunk") : ContextOK(calls[c])
  /\ (req.level = "chunk" /\ phase \in {"wait", "ret"}) =>
       /\ ContextOK(req)
       /\ req.main = [q \in 1..(req.hi - req.lo) |-> segments[req.lo + q].text]
  /\ (pc = "chunk" /\ phase = "call") =>
       Len(translated_segments_text.items) = i * CHUNK_SIZE

\* C7 witness: the second chunk is in flight with three previous segments
\* as context and the first chunk was sent with a non-empty next context.
C7_Witness ==
  /\ req.level = "chunk" /\ phase = "wait" /\ req.lo = CHUNK_SIZE
  /\ req.prev = <<"ko198", NEWLINE, "ko199", NEWLINE, "ko200">>
  /\ \E c \in CallsAt("chunk") : calls[c].lo = 0 /\ Len(calls[c].next) > 0

\* calls between two chunk-level calls belong to the first chunk's cascade
CascadeInside(c) ==
  LET d == Parent(c, "chunk")
  IN calls[c].level \in {"sub", "mini"} =>
       /\ d # 0
       /\ calls[d].lo <= calls[c].lo
       /\ calls[c].hi <= calls[d].hi

C19_ContextForwardedUnchanged ==
  /\ \A c \in 1..Len(calls) : calls[c].ref = reference_len
  /\ \A c \in CallsAt("sub") \cup CallsAt("mini") :
       LET d == Parent(c, "chunk")
           lo == calls[c].lo
           hi == calls[c].hi
           n == Len(segments)
       IN /\ d # 0
          /\ calls[c].ref = calls[d].ref
          /\ calls[c].prev = calls[d].prev
          /\ calls[c].next = calls[d].next
          /\ lo > calls[d].lo =>
               calls[c].prev # SourceWindow(IF lo - OVERLAP_SIZE > 0 THEN lo - OVERLAP_SIZE ELSE 0, lo)
          /\ hi < calls[d].hi =>
               calls[c].next # SourceWindow(hi, IF hi + OVERLAP_SIZE < n THEN hi + OVERLAP_SIZE ELSE n)
  /\ (phase \in {"wait", "ret"} /\ req.level \in {"sub", "mini"}) =>
       /\ req.ref = reference_len
       /\ req.prev = ChunkContext(i).prev
       /\ req.next = ChunkContext(i).next

\* C19 witness: the mini-chunk of segments 60..69 was sent with the first
\* chunk's context (nothing before, segments 200..202 after) and the
\* reference material.
C19_Witness ==
  /\ \E c \in CallsAt("mini") :
       /\ calls[c].lo = SUB_CHUNK_SIZE + MINI_CHUNK_SIZE
       /\ calls[c].prev = <<>>
       /\ calls[c].next = <<"ko201", NEWLINE, "ko202", NEWLINE, "ko203">>
       /\ calls[c].ref = TOKEN_THRESHOLD - PROMPT_OVERHEAD
  /\ \E c \in CallsAt("sub") : calls[c].lo = SUB_CHUNK_SIZE /\ calls[c].prev = <<>>

\* the calls of chunk ci and of its cascade
ChunkCalls(ci) ==
  {c \in 1..Len(calls) :
     /\ calls[c].level # "single"
     /\ ci * CHUNK_SIZE <= calls[c].lo
     /\ calls[c].hi <= ci * CHUNK_SIZE + CHUNK_SIZE}

\* 1 + 4 + 20
MaxCallsPerChunk ==
  1 + CHUNK_SIZE \div SUB_CHUNK_SIZE + CHUNK_SIZE \div MINI_CHUNK_SIZE

\* no two calls of a level cover a common segment, no call covers a
\* segment that a successful call of the sliding window covered before, and
\* a chunk causes at most 25 calls
CallsBounded ==
  /\ \A c, d \in 1..Len(calls) :
       (c < d /\ calls[c].level = calls[d].level) => calls[c].hi <= calls[d].lo
  /\ \A c, d \in 1..Len(calls) :
       (c < d /\ calls[c].ok) => calls[c].hi <= calls[d].lo
  /\ \A ci \in 0..(num_chunks - 1) : Cardinality(ChunkCalls(ci)) <= MaxCallsPerChunk
  /\ Len(calls) <= 1 + num_chunks * MaxCallsPerChunk

\* C20: translate_segments terminates, and with a bounded number of backend
\* calls: a segment is submitted at most once at each of the four levels, a
\* unit whose call succeeded is not submitted again, and a chunk of 200
\* segments causes at most 1 + 4 + 20 = 25 calls.
C20_TerminatesWithBoundedCalls ==
  /\ []CallsBounded
  /\ <>Finished

\* C20 witness: every call failed; the first segment was submitted four
\* times and the chunk of 200 caused 25 calls.
C20_Witness ==
  /\ Finished
  /\ Len(calls) >= 1 /\ calls[1].level = "single"
  /\ \A level \in {"chunk", "sub", "mini"} : \E c \in CallsAt(level) : Covers(c, 1)
  /\ Cardinality(ChunkCalls(0)) = 25
  /\ num_chunks = 2

(***************************************************************************)
(* Properties of split_long_segments.                                      *)
(***************************************************************************)
SplitDone == sp_pc = "done"
OutIndices == 1..Len(split_segments)
HasWords(seg) == seg.words # <<>>
Duration(seg) == seg.end - seg.start

\* the output positions that came from input segment s, in order
RECURSIVE OutputsOf(_, _)
OutputsOf(s, x) ==
  IF x > Len(split_segments) THEN <<>>
  ELSE (IF split_origin[x] = s THEN <<split_segments[x]>> ELSE <<>>) \o OutputsOf(s, x + 1)

WasSplit(s) == ~ShortEnough(sp_segments[s]) /\ HasWords(sp_segments[s])

BlanksInFront(ws) == \A w \in 1..(Len(ws) - 1) : ~IsSpace(ws[w].word[Len(ws[w].word)])

Squeeze(t) == SelectSeq(t, LAMBDA a : ~IsSpace(a))

RECURSIVE ConcatWords(_)
ConcatWords(outs) ==
  IF outs = <<>> THEN <<>> ELSE Head(outs).words \o ConcatWords(Tail(outs))

RECURSIVE ConcatTexts(_)
ConcatTexts(outs) ==
  IF outs = <<>> THEN <<>> ELSE Head(outs).text \o ConcatTexts(Tail(outs))

GapReturned == gap_pc = "returned"
\* the segments of the returned list
Filled == Deref(heap, filled_segments)
InputRefs == {transcribed_segments[x] : x \in DOMAIN transcribed_segments}

\* the silence between input segment p and its successor
GapAfter(p) == input_at_call[p + 1].start - input_at_call[p].end
LongGaps == {p \in 1..(Len(input_at_call) - 1) : GapAfter(p) > gap_threshold}
\* where input segment p stands in the output if one segment is inserted
\* after every long gap before it
Pos(p) == p + Cardinality({q \in LongGaps : q < p})

C12_OriginalsKeptInOrder ==
  GapReturned =>
    /\ SelectSeq(filled_segments, LAMBDA r : r \in InputRefs) = transcribed_segments
    /\ Deref(heap, transcribed_segments) = input_at_call
    /\ \A x \in DOMAIN filled_segments :
         filled_segments[x] \notin InputRefs =>
           /\ 1 < x /\ x < Len(filled_segments)
           /\ filled_segments[x - 1] \in InputRefs
           /\ filled_segments[x + 1] \in InputRefs
           /\ Filled[x].text = placeholder
           /\ Filled[x].end - Filled[x].start = Filled[x + 1].start - Filled[x - 1].end
    /\ Len(filled_segments) = Len(transcribed_segments) + Cardinality(LongGaps)

\* C12 witness: two placeholders were inserted among three originals.
C12_Witness ==
  /\ GapReturned
  /\ Len(transcribed_segments) = 3
  /\ Len(filled_segments) = 5
  /\ Cardinality(LongGaps) = 2

\* C15: a stage's output shares no segment object with its input (here:
\* fill_transcription_gaps).
C15_NoSharedSegmentObjects ==
  GapReturned =>
    \A x \in DOMAIN filled_segments : filled_segments[x] \notin InputRefs

(***************************************************************************)
(* Properties of adjust_subtitle_timing and generate_srt.                  *)
(***************************************************************************)
Adjusted == timing_pc \in {"adjusted", "twice", "written"}
OrderedByStart(segs) == \A x \in 1..(Len(segs) - 1) : segs[x].start <= segs[x + 1].start
WellTimed(seg) == seg.end >= seg.start

\* C13: for a stream ordered by start and a non-negative buffer, the output
\* has end_i <= start_{i+1} for every adjacent pair and end_i >= start_i for
\* every segment, the last one included.
C13_NoOverlapNoNegativeDuration ==
  (Adjusted /\ OrderedByStart(timing_segments) /\ time_buffer >= 0) =>
    /\ \A x \in 1..(Len(adjusted_segments) - 1) :
         adjusted_segments[x].end <= adjusted_segments[x + 1].start
    /\ \A x \in 1..Len(adjusted_segments) : WellTimed(adjusted_segments[x])

\* C13 as amended: for a stream ordered by start and a non-negative buffer,
\* the output has end_i <= start_{i+1} for every adjacent pair and
\* end_i >= start_i for every segment but the last; the last segment has
\* end >= start exactly when it had in the input.
C13_NoOverlapNoNegativeDurationButLast ==
  (Adjusted /\ OrderedByStart(timing_segments) /\ time_buffer >= 0) =>
    LET n == Len(adjusted_segments)
    IN /\ \A x \in 1..(n - 1) :
            /\ adjusted_segments[x].end <= adjusted_segments[x + 1].start
            /\ WellTimed(adjusted_segments[x])
       /\ n >= 1 => (WellTimed(adjusted_segments[n]) <=> WellTimed(timing_segments[n]))

\* C13 witness: in an ordered stream of three the first segment overlapped
\* the second and was cut back to the second's start minus the buffer, the
\* second is closer to the third than the buffer and was clamped to its own
\* start.
C13_Witness ==
  /\ Adjusted
  /\ OrderedByStart(timing_segments)
  /\ time_buffer > 0
  /\ Len(timing_segments) = 3
  /\ timing_segments[1].end > timing_segments[2].start - time_buffer
  /\ adjusted_segments[1].end = timing_segments[2].start - time_buffer
  /\ adjusted_segments[1].end > adjusted_segments[1].start
  /\ timing_segments[3].start - time_buffer < timing_segments[2].start
  /\ adjusted_segments[2].end = adjusted_segments[2].start
  /\ WellTimed(timing_segments[3])

\* C14: adjust_subtitle_timing applied twice with the same buffer gives the
\* same stream as applied once.
C14_Idempotent ==
  timing_pc = "twice" => readjusted_segments = adjusted_segments

\* C14 witness: the second application ran on a stream whose first
\* application had moved an end and clamped another.
C14_Witness ==
  /\ timing_pc = "twice"
  /\ Len(adjusted_segments) = 3
  /\ adjusted_segments # timing_segments
  /\ adjusted_segments[1].end = adjusted_segments[1].start
  /\ adjusted_segments[2].end > adjusted_segments[2].start
  /\ time_buffer > 0

\* C17: generate_srt writes one block per segment, in stream order,
\* numbered 1, 2, ..., n; a segment with empty text gets its block as well.
C17_OneNumberedBlockPerSegment ==
  timing_pc = "written" =>
    /\ Len(srt_file) = 3 * Len(adjusted_segments)
    /\ \A b \in 1..Len(adjusted_segments) :
         /\ srt_file[3 * b - 2] = <<ToString(b), NEWLINE>>
         /\ Len(srt_file[3 * b - 1]) = 2
         /\ srt_file[3 * b] = adjusted_segments[b].text \o <<NEWLINE, NEWLINE>>

\* C17 witness: three segments, the first with empty text, were written as
\* blocks 1, 2 and 3.
C17_Witness ==
  /\ timing_pc = "written"
  /\ Len(adjusted_segments) = 3
  /\ adjusted_segments[1].text = <<>>
  /\ srt_file[1] = <<"1", NEWLINE>>
  /\ srt_file[2] = <<"00:00:01,000 --> 00:00:03,000", NEWLINE>>
  /\ srt_file[3] = <<NEWLINE, NEWLINE>>
  /\ srt_file[7] = <<"3", NEWLINE>>
  /\ srt_file[9] = <<"en3", NEWLINE, NEWLINE>>

\* C18: the output has the input's segments in number and order, with start
\* and text unchanged; for every segment but the last, end is next.start -
\* time_buffer, or start when that is smaller; the last segment's end is
\* unchanged; a negative buffer counts as 0.
C18_OnlyEndsOfNonLastChange ==
  Adjusted =>
    LET n == Len(timing_segments)
        buffer == IF time_buffer < 0 THEN 0 ELSE time_buffer
    IN /\ Len(adjusted_segments) = n
       /\ \A x \in 1..n :
            /\ adjusted_segments[x].start = timing_segments[x].start
            /\ adjusted_segments[x].text = timing_segments[x].text
       /\ \A x \in 1..(n - 1) :
            LET wanted == timing_segments[x + 1].start - buffer
            IN adjusted_segments[x].end =
                 IF wanted < timing_segments[x].start THEN timing_segments[x].start
                 ELSE wanted
       /\ n >= 1 => adjusted_segments[n].end = timing_segments[n].end

\* C18 witness: with a negative buffer the first segment was stretched to
\* the second's start, the second was clamped because the third starts
\* before it, and the ill-timed last segment kept its end.
C18_Witness ==
  /\ Adjusted
  /\ time_buffer < 0
  /\ Len(timing_segments) = 3
  /\ adjusted_segments[1].end = timing_segments[2].start
  /\ adjusted_segments[1].end > timing_segments[1].end
  /\ timing_segments[3].start < timing_segments[2].start
  /\ adjusted_segments[2].end = adjusted_segments[2].start
  /\ adjusted_segments[3].end < adjusted_segments[3].start

(***************************************************************************)
(* Properties of _process_video.                                           *)
(***************************************************************************)
RunEnded == run_pc = "ended"

\* C16: however the run leaves _process_video, the audio file it extracted
\* is no longer on disk when it ends.
C16_AudioRemovedOnEveryExit ==
  RunEnded => audio_file \notin {"partial", "extracted"}

====
